---- MODULE Spec2Model ----
(***************************************************************************)
(* A model of the message relay envelope (rings-core                       *)
(* message/protocols/relay.rs) and of the swarm's transport registry       *)
(* (bns-core/rings-core swarm.rs).                                         *)
(***************************************************************************)
EXTENDS Integers, Sequences, FiniteSets, TLC

\* ------------------------------------------------------------------ bounds
\* Number of distinct DIDs the model draws from.
NumDids == 4
\* Longest path a SEND relay may grow to.
MaxPath == 4
\* Number of relay calls followed in the SEND-only specification.
MaxCalls == 4
\* Number of peer DIDs the swarm registers connections for.
NumPeers == 2
\* Number of connections (transports) registered one call after another.
NumConns == 2
\* Number of connections there are where two register calls run concurrently.
NumRaceConns == 3
\* close() calls followed per connection.
MaxCloses == 2
\* Transports made by new_transport
MaxTransports == 2
\* Number of DIDs and longest path of the envelopes taken as they come off the wire.
NumWireDids == 2
MaxWirePath == 3
\* Connections the two backends create in all, and longest pending list.
MaxHsConns == 2
\* The same with honest parties only, and their longest pending list.
MaxHonestConns == 3
MaxPending == 1
\* Transports one Swarm makes, and its longest pending list.
MaxSwarmConns == 2
MaxQueue == 2
\* Connections made through the judgement hook, and the counts it is followed to.
MaxJudgeConns == 2
MaxCount == 2

Dids == 1..NumDids
\* Option<Did>::None
None == 0
OptDids == Dids \cup {None}

VARIABLES
    envelope,   \* the MessageRelay under work
    last,       \* the last call made on it: operation, arguments, result
    calls,      \* number of relay calls made (SEND-only specification)
    walk,       \* report walk position: -1 none, k >= 1 next is path[k], 0 done
    pure,       \* TRUE while every relay on the report used (next_hop, None)
    out,        \* the envelope as the last call on a wire envelope left or returned it
    table,      \* Swarm.table: DID -> connection
    conns,      \* each connection's ICE state and number of close() calls
    swarmLast,  \* the last call made on the swarm
    registered, \* the DIDs register was called for
    tasks,      \* the two concurrent register calls
    table0,     \* the table as it was before the concurrent calls
    backend,    \* handshake: each node's backend map DID -> connection id
    hconns,     \* handshake: the connections created, by id
    pending,    \* handshake: each node's pending_transports
    registry,   \* handshake: each node's transports table
    events,     \* handshake: each node's transport_event_channel
    hlast,      \* handshake: the last call, its payload and its result
    measure     \* Swarm.measure of the node that connects: Option<MeasureImpl>

relayVars == <<envelope, last, calls, walk, pure, out>>
swarmVars == <<table, conns, swarmLast, registered, tasks, table0>>
handshakeVars == <<backend, hconns, pending, registry, events, hlast, measure>>
vars == <<relayVars, swarmVars, handshakeVars>>

\* ------------------------------------------------------- relay.rs: the data
SEND == "SEND"
REPORT == "REPORT"

MessageRelay_new(method, path, path_end_cursor, next_hop, destination) ==
    [method |-> method,
     path |-> path,
     path_end_cursor |-> IF path_end_cursor = None THEN 0 ELSE path_end_cursor,
     next_hop |-> next_hop,
     destination |-> destination]

\* ---------------------------------------------------- relay.rs: the methods
\* Mutant of validate: the destination of a report is not checked.
validate_path_only(self) ==
    IF \E i \in 1..(Len(self.path) - 1) : self.path[i] = self.path[i + 1]
    THEN "InvalidRelayPath"
    ELSE "Ok"

validate(self) ==
    IF \E i \in 1..(Len(self.path) - 1) : self.path[i] = self.path[i + 1]
    THEN "InvalidRelayPath"
    ELSE IF self.method = REPORT /\ self.path[1] # self.destination
    THEN "InvalidRelayDestination"
    ELSE "Ok"

origin(self) == self.path[1]

sender(self) ==
    IF self.method = SEND THEN origin(self) ELSE self.path[Len(self.path)]

\* Mutant of path_prev: the element under the cursor instead of the one before it.
path_prev_under_cursor(self) ==
    IF Len(self.path) < self.path_end_cursor + 1
    THEN None
    ELSE self.path[(Len(self.path) - 1 - self.path_end_cursor) + 1]

path_prev(self) ==
    IF Len(self.path) < self.path_end_cursor + 2
    THEN None
    ELSE self.path[(Len(self.path) - 2 - self.path_end_cursor) + 1]

\* path.iter().rev().skip(path_end_cursor).position(|x| x == current);
\* -1 stands for Option::None.
NoPos == -1
\* Mutant of position: the elements the cursor has passed are searched too.
position_no_skip(self, current) ==
    LET n == Len(self.path)
        found == {j \in 0..(n - 1) : self.path[n - j] = current}
    IN  IF found = {} THEN NoPos
        ELSE CHOOSE j \in found : \A k \in found : j <= k

position(self, current) ==
    LET n == Len(self.path) - self.path_end_cursor
        found == {j \in 0..(n - 1) : self.path[n - j] = current}
    IN  IF found = {} THEN NoPos
        ELSE CHOOSE j \in found : \A k \in found : j <= k

\* Mutant of relaySend: current is put at the head of the path.
relaySendPrepend(self, current, next_hop) ==
    [self EXCEPT !.path = <<current>> \o self.path, !.next_hop = next_hop]

relaySend(self, current, next_hop) ==
    [self EXCEPT !.path = Append(self.path, current), !.next_hop = next_hop]

\* Mutant of relayFinalHop: the cursor set to the length, one past the head.
relayFinalHopOverrun(self) ==
    [self EXCEPT !.path_end_cursor = Len(self.path), !.next_hop = None]

\* Mutant of relayFinalHop: next_hop is not cleared.
relayFinalHopKeepsHop(self) ==
    [self EXCEPT !.path_end_cursor = Len(self.path) - 1]

relayFinalHop(self) ==
    [self EXCEPT !.path_end_cursor = Len(self.path) - 1, !.next_hop = None]

\* Mutant of relayMoveCursor: the cursor set to pos instead of advanced by it.
relayMoveCursorSet(self, pos) ==
    IF pos # NoPos
    THEN [self EXCEPT !.path_end_cursor = pos]
    ELSE self

relayMoveCursor(self, pos) ==
    IF pos # NoPos
    THEN [self EXCEPT !.path_end_cursor = self.path_end_cursor + pos]
    ELSE self

relayInferNextHop(self, next_hop) ==
    [self EXCEPT !.next_hop = IF next_hop # None THEN next_hop ELSE path_prev(self)]

relayReport(self, current, next_hop) ==
    IF self.next_hop = self.destination
    THEN [err |-> "Ok", self |-> relayFinalHop(self)]
    ELSE LET pos == position(self, current)
         IN  IF pos = NoPos /\ next_hop = None
             THEN [err |-> "CannotInferNextHop", self |-> self]
             ELSE [err |-> "Ok",
                   self |-> relayInferNextHop(relayMoveCursor(self, pos), next_hop)]

\* Mutant of relay: next_hop is not compared with current.
relay_any_current(self, current, next_hop) ==
    IF validate(self) # "Ok"
    THEN [err |-> validate(self), self |-> self]
    ELSE IF self.method = SEND
    THEN [err |-> "Ok", self |-> relaySend(self, current, next_hop)]
    ELSE relayReport(self, current, next_hop)

\* Mutant of relay: the SEND push is made before next_hop is compared.
relay_push_first(self, current, next_hop) ==
    IF validate(self) # "Ok"
    THEN [err |-> validate(self), self |-> self]
    ELSE IF self.next_hop # None /\ self.next_hop # current
    THEN [err |-> "InvalidNextHop",
          self |-> IF self.method = SEND
                   THEN relaySend(self, current, next_hop) ELSE self]
    ELSE IF self.method = SEND
    THEN [err |-> "Ok", self |-> relaySend(self, current, next_hop)]
    ELSE relayReport(self, current, next_hop)

relay(self, current, next_hop) ==
    IF validate(self) # "Ok"
    THEN [err |-> validate(self), self |-> self]
    ELSE IF self.next_hop # None /\ self.next_hop # current
    THEN [err |-> "InvalidNextHop", self |-> self]
    ELSE IF self.method = SEND
    THEN [err |-> "Ok", self |-> relaySend(self, current, next_hop)]
    ELSE relayReport(self, current, next_hop)

\* Mutant of report: the destination is the last of the path, not the first.
report_to_last(self) ==
    IF self.method # SEND
    THEN [err |-> "ReportNeedSend", self |-> self]
    ELSE IF Len(self.path) < 2
    THEN [err |-> "CannotInferNextHop", self |-> self]
    ELSE [err |-> "Ok",
          self |-> [method |-> REPORT,
                    path |-> self.path,
                    path_end_cursor |-> 0,
                    next_hop |-> path_prev(self),
                    destination |-> self.path[Len(self.path)]]]

report(self) ==
    IF self.method # SEND
    THEN [err |-> "ReportNeedSend", self |-> self]
    ELSE IF Len(self.path) < 2
    THEN [err |-> "CannotInferNextHop", self |-> self]
    ELSE [err |-> "Ok",
          self |-> [method |-> REPORT,
                    path |-> self.path,
                    path_end_cursor |-> 0,
                    next_hop |-> path_prev(self),
                    destination |-> sender(self)]]

\* Mutant of reset_destination: the method is not checked.
reset_destination_unchecked(self, destination) ==
    [err |-> "Ok", self |-> [self EXCEPT !.destination = destination]]

reset_destination(self, destination) ==
    IF self.method = SEND
    THEN [err |-> "Ok", self |-> [self EXCEPT !.destination = destination]]
    ELSE [err |-> "ResetDestinationNeedSend", self |-> self]

\* -------------------------------------------- relay.rs: the initial envelope
NoCall == [op |-> "new", current |-> None, hop |-> None, err |-> "Ok"]

\* DIDs are only compared for equality, so one origin stands for all of them.
origin_sender == CHOOSE d \in Dids : \A e \in Dids : d <= e

InitEnvelope ==
    /\ \E d \in Dids :
          envelope = MessageRelay_new(SEND, <<origin_sender>>, None, None, d)
    /\ last = NoCall
    /\ calls = 0
    /\ walk = -1
    /\ pure = FALSE
    /\ out = envelope

\* The envelope where no relay call is followed.
IdleEnvelope ==
    /\ envelope = MessageRelay_new(SEND, <<origin_sender>>, None, None, origin_sender)
    /\ last = NoCall
    /\ calls = 0
    /\ walk = -1
    /\ pure = FALSE
    /\ out = envelope

\* --------------------------------------------------- swarm.rs: the registry
Peers == 1..NumPeers
Conns == 1..NumConns
RaceConns == 1..NumRaceConns
\* Option<Arc<Transport>>::None
NoConn == 0

\* RTCIceConnectionState
IceOpen == {"New", "Checking", "Connected", "Disconnected", "Failed"}
IceStates == IceOpen \cup {"Closed"}

\* MemStorage::set: insert, giving back the value that was there.
\* Mutant: the entry that is there is kept.
MemStorage_set_if_absent(tbl, address, trans) ==
    [table |-> IF tbl[address] = NoConn THEN [tbl EXCEPT ![address] = trans] ELSE tbl,
     prev |-> tbl[address]]

MemStorage_set(tbl, address, trans) ==
    [table |-> [tbl EXCEPT ![address] = trans], prev |-> tbl[address]]

MemStorage_get(tbl, address) == tbl[address]

\* MemStorage::get_or_set: the value that is there, or the default after
\* inserting it.
MemStorage_get_or_set(tbl, address, default) ==
    [table |-> IF tbl[address] = NoConn THEN [tbl EXCEPT ![address] = default] ELSE tbl,
     value |-> IF tbl[address] = NoConn THEN default ELSE tbl[address]]

\* Transport::close
Transport_close(cs, trans) ==
    [cs EXCEPT ![trans] = [state |-> "Closed", closes |-> cs[trans].closes + 1]]

get_transport(address) == MemStorage_get(table, address)

\* register, up to its await: let prev_trans = self.table.set(address, trans)
\* Mutant: register through get_or_set, which keeps the entry that is there.
register_keep(tbl, address, trans) == MemStorage_set_if_absent(tbl, address, trans)

register_set(tbl, address, trans) == MemStorage_set(tbl, address, trans)

\* register, from its await: if let Some(trans) = prev_trans { trans.close().await }
\* Mutant: the displaced transport is dropped without close().
register_forget(cs, prev_trans) == cs

register_close(cs, prev_trans) ==
    IF prev_trans # NoConn THEN Transport_close(cs, prev_trans) ELSE cs

Tasks == {"t1", "t2"}
IdleTask == [pc |-> "idle", did |-> NoConn, conn |-> NoConn, prev |-> NoConn,
             overlap |-> FALSE]
NoSwarmCall == [op |-> "new", did |-> NoConn, conn |-> NoConn, prev |-> NoConn,
                state |-> "New", err |-> "Ok", ret |-> NoConn]

\* ------------------------------------------- impls.rs: handshake state
\* The two parties of a handshake ("Let A initiate to B"); DIDs of the nodes.
NodeA == 1
NodeB == 2
Nodes == {NodeA, NodeB}
\* A session description that does not deserialize; otherwise the id of the
\* connection the description was created by.
NoSdp == 0
\* Capacity of the transport event channel.
ChannelCapacity == 1

BodyKinds == {"ConnectNodeSend", "ConnectNodeReport", "JoinDHT"}
NoPayload ==
    [verified |-> FALSE, data |-> "None", origin |-> 0, destination |-> 0,
     next_hop |-> None, sdp |-> NoSdp]
\* Swarm.measure: None, or the counters kept per DID and their verdict.
NoMeasure ==
    [on |-> FALSE, good |-> [d \in Nodes |-> TRUE], connect |-> [d \in Nodes |-> 0],
     disconnected |-> [d \in Nodes |-> 0]]

NoHsCall ==
    [op |-> "none", node |-> 0, payload |-> NoPayload, err |-> "Ok", conn |-> NoConn,
     prior |-> NoConn, priorConnected |-> FALSE, result |-> NoPayload, did |-> None]

InitHandshake ==
    /\ backend = [n \in Nodes |-> [d \in Nodes |-> NoConn]]
    /\ hconns = <<>>
    /\ pending = [n \in Nodes |-> <<>>]
    /\ registry = [n \in Nodes |-> [d \in Nodes |-> NoConn]]
    /\ events = [n \in Nodes |-> <<>>]
    /\ hlast = NoHsCall
    /\ measure = NoMeasure

InitSwarm ==
    /\ InitHandshake
    /\ table = [d \in Peers |-> NoConn]
    /\ conns = [c \in Conns |-> [state |-> "New", closes |-> 0]]
    /\ swarmLast = NoSwarmCall
    /\ registered = {}
    /\ tasks = [t \in Tasks |-> IdleTask]
    /\ table0 = table

\* swarm.register(address, trans).await, with nothing else running
Register(address, trans) ==
    LET set == register_set(table, address, trans)
    IN  /\ set.prev # NoConn => conns[set.prev].closes < MaxCloses
        /\ table' = set.table
        /\ conns' = register_close(conns, set.prev)
        /\ swarmLast' = [op |-> "register", did |-> address, conn |-> trans,
                         prev |-> set.prev, state |-> conns[trans].state,
                         err |-> "Ok", ret |-> NoConn]
        /\ registered' = registered \cup {address}
        /\ UNCHANGED <<tasks, table0>>
        /\ UNCHANGED <<relayVars, handshakeVars>>

\* The ICE layer moves a connection that is not closed to another state.
IceChange(trans, state) ==
    /\ conns[trans].state # "Closed"
    /\ conns[trans].state # state
    /\ conns' = [conns EXCEPT ![trans].state = state]
    /\ UNCHANGED <<table, swarmLast, registered, tasks, table0>>
    /\ UNCHANGED <<relayVars, handshakeVars>>

NextSwarm ==
    \/ \E address \in Peers, trans \in Conns : Register(address, trans)
    \/ \E trans \in Conns, state \in IceOpen : IceChange(trans, state)

InitSwarmIdle == IdleEnvelope /\ InitSwarm

SpecSwarm == InitSwarmIdle /\ [][NextSwarm]_vars

\* Two register calls running concurrently: each runs to its await
\* (trans.close().await) in one step and finishes in another.
InitConc ==
    /\ IdleEnvelope
    /\ InitHandshake
    /\ table \in [Peers -> RaceConns \cup {NoConn}]
    /\ conns = [c \in RaceConns |-> [state |-> "New", closes |-> 0]]
    /\ swarmLast = NoSwarmCall
    /\ registered = {}
    /\ tasks = [t \in Tasks |-> IdleTask]
    /\ table0 = table

RegisterSet(t, address, trans) ==
    LET set == register_set(table, address, trans)
    IN  /\ tasks[t].pc = "idle"
        /\ table' = set.table
        /\ tasks' = [tasks EXCEPT ![t] =
                        [pc |-> IF set.prev # NoConn THEN "closing" ELSE "done",
                         did |-> address, conn |-> trans, prev |-> set.prev,
                         overlap |-> \E u \in Tasks : tasks[u].pc = "closing"]]
        /\ registered' = registered \cup {address}
        /\ UNCHANGED <<conns, swarmLast, table0>>
        /\ UNCHANGED <<relayVars, handshakeVars>>

RegisterClose(t) ==
    /\ tasks[t].pc = "closing"
    /\ conns' = register_close(conns, tasks[t].prev)
    /\ tasks' = [tasks EXCEPT ![t].pc = "done"]
    /\ UNCHANGED <<table, swarmLast, registered, table0>>
    /\ UNCHANGED <<relayVars, handshakeVars>>

NextConc ==
    \/ \E t \in Tasks, address \in Peers, trans \in RaceConns : RegisterSet(t, address, trans)
    \/ \E t \in Tasks : RegisterClose(t)

SpecConc == InitConc /\ [][NextConc]_vars

\* The executor runs every register call up to its await; nothing makes the
\* close() it awaits complete.
FairRegister ==
    \A t \in Tasks :
        WF_vars(\E address \in Peers, trans \in RaceConns : RegisterSet(t, address, trans))

SpecStall == InitConc /\ [][NextConc]_vars /\ FairRegister

\* --------------------------------- bns-core swarm.rs: the transport manager
\* Transport::is_connected
is_connected(cs, trans) == cs[trans].state = "Connected"

\* new_transport: Transport::new(event_sender), start, apply_callback,
\* Ok(Arc::new(ice_transport)).
\* Mutant: the new transport is put in the table under the first address.
new_transport_registering(tbl, cs) ==
    [table |-> [tbl EXCEPT ![1] = Len(cs) + 1],
     conns |-> Append(cs, [state |-> "New", closes |-> 0]),
     trans |-> Len(cs) + 1]

new_transport(tbl, cs) ==
    [table |-> tbl,
     conns |-> Append(cs, [state |-> "New", closes |-> 0]),
     trans |-> Len(cs) + 1]

\* get_or_register, from its check on.
\* Mutant: the default transport is taken whatever its state.
get_or_register_unchecked(tbl, cs, address, default) ==
    [table |-> MemStorage_get_or_set(tbl, address, default).table,
     err |-> "Ok",
     ret |-> MemStorage_get_or_set(tbl, address, default).value]

\* Mutant of get_or_register: the default replaces the entry that is there.
get_or_register_overwrite(tbl, cs, address, default) ==
    IF ~is_connected(cs, default)
    THEN [table |-> tbl, err |-> "NotConnected", ret |-> NoConn]
    ELSE [table |-> MemStorage_set(tbl, address, default).table,
          err |-> "Ok",
          ret |-> default]

get_or_register(tbl, cs, address, default) ==
    IF ~is_connected(cs, default)
    THEN [table |-> tbl, err |-> "NotConnected", ret |-> NoConn]
    ELSE [table |-> MemStorage_get_or_set(tbl, address, default).table,
          err |-> "Ok",
          ret |-> MemStorage_get_or_set(tbl, address, default).value]

\* The addresses the manager holds transports for are the two parties.
\* Transport::send_message: one frame written on the data channel, which is
\* open while the connection is connected; an error if it is not open.
Transport_send_message(cs, trans) ==
    IF is_connected(cs, trans)
    THEN [err |-> "Ok", written |-> trans]
    ELSE [err |-> "Transport", written |-> NoConn]

\* send_message: match self.get_transport(address)
send_message(tbl, cs, address) ==
    IF MemStorage_get(tbl, address) # NoConn
    THEN Transport_send_message(cs, MemStorage_get(tbl, address))
    ELSE [err |-> "MissDidInTable", written |-> NoConn]

InitTable ==
    /\ IdleEnvelope
    /\ InitHandshake
    /\ table = [d \in Nodes |-> NoConn]
    /\ conns = <<>>
    /\ swarmLast = NoSwarmCall
    /\ registered = {}
    /\ tasks = [t \in Tasks |-> IdleTask]
    /\ table0 = table

\* swarm.new_transport().await; ok is whether start and apply_callback succeed.
NewTransport(ok) ==
    LET new == new_transport(table, conns)
    IN  /\ Len(conns) < MaxTransports
        /\ table' = IF ok THEN new.table ELSE table
        /\ conns' = IF ok THEN new.conns ELSE conns
        /\ swarmLast' = [op |-> "new_transport", did |-> NoConn,
                         conn |-> IF ok THEN new.trans ELSE NoConn,
                         prev |-> NoConn, state |-> "New",
                         err |-> IF ok THEN "Ok" ELSE "Err", ret |-> NoConn]
        /\ UNCHANGED <<registered, tasks, table0>>
        /\ UNCHANGED <<relayVars, handshakeVars>>

\* swarm.get_or_register(address, default).await
GetOrRegister(address, default) ==
    LET got == get_or_register(table, conns, address, default)
    IN  /\ table' = got.table
        /\ swarmLast' = [op |-> "get_or_register", did |-> address, conn |-> default,
                         prev |-> NoConn, state |-> "New",
                         err |-> got.err, ret |-> got.ret]
        /\ UNCHANGED <<conns, registered, tasks, table0>>
        /\ UNCHANGED <<relayVars, handshakeVars>>

\* swarm.send_message(address, payload).await
SendMessage(address) ==
    LET sent == send_message(table, conns, address)
    IN  /\ swarmLast' = [op |-> "send_message", did |-> address,
                         conn |-> table[address], prev |-> NoConn, state |-> "New",
                         err |-> sent.err, ret |-> sent.written]
        /\ UNCHANGED <<table, conns, registered, tasks, table0>>
        /\ UNCHANGED <<relayVars, handshakeVars>>

NextTable ==
    \/ \E ok \in BOOLEAN : NewTransport(ok)
    \/ \E address \in Nodes : SendMessage(address)
    \/ \E address \in Nodes, trans \in DOMAIN conns : Register(address, trans)
    \/ \E address \in Nodes, default \in DOMAIN conns : GetOrRegister(address, default)
    \/ \E trans \in DOMAIN conns, state \in IceOpen : IceChange(trans, state)

SpecTable == InitTable /\ [][NextTable]_vars

\* ------------------------------------------------ relay.rs: the state machine
\* envelope.relay(current, next_hop)
Relay(current, next_hop) ==
    /\ envelope.method = SEND => Len(envelope.path) < MaxPath
    /\ envelope' = relay(envelope, current, next_hop).self
    /\ last' = [op |-> "relay", current |-> current, hop |-> next_hop,
                err |-> relay(envelope, current, next_hop).err]
    /\ walk' = IF envelope.method = REPORT /\ walk >= 1 /\ next_hop = None
                  /\ current = envelope.path[walk]
               THEN walk - 1 ELSE -1
    /\ pure' = (pure /\ envelope.method = REPORT /\ next_hop = None
                     /\ current = envelope.next_hop)
    /\ UNCHANGED <<calls, out>>
    /\ UNCHANGED <<swarmVars, handshakeVars>>

\* envelope = envelope.report()?
Report ==
    /\ envelope' = report(envelope).self
    /\ last' = [op |-> "report", current |-> None, hop |-> None,
                err |-> report(envelope).err]
    /\ walk' = IF report(envelope).err = "Ok" /\ validate(envelope) = "Ok"
               THEN Len(envelope.path) - 1 ELSE -1
    /\ pure' = (report(envelope).err = "Ok")
    /\ UNCHANGED <<calls, out>>
    /\ UNCHANGED <<swarmVars, handshakeVars>>

\* envelope.reset_destination(destination)
ResetDestination(destination) ==
    /\ envelope' = reset_destination(envelope, destination).self
    /\ last' = [op |-> "reset_destination", current |-> destination, hop |-> None,
                err |-> reset_destination(envelope, destination).err]
    /\ walk' = -1
    /\ UNCHANGED <<calls, pure, out>>
    /\ UNCHANGED <<swarmVars, handshakeVars>>

NextRelay ==
    \/ \E current \in Dids, next_hop \in OptDids : Relay(current, next_hop)
    \/ Report
    \/ \E destination \in Dids : ResetDestination(destination)

InitRelay == InitEnvelope /\ InitSwarm

SpecRelay == InitRelay /\ [][NextRelay]_vars

\* relay calls on a SEND envelope only, counted.
SendRelay(current, next_hop) ==
    /\ calls < MaxCalls
    /\ envelope' = relay(envelope, current, next_hop).self
    /\ last' = [op |-> "relay", current |-> current, hop |-> next_hop,
                err |-> relay(envelope, current, next_hop).err]
    /\ calls' = calls + 1
    /\ UNCHANGED <<walk, pure, out>>
    /\ UNCHANGED <<swarmVars, handshakeVars>>

NextSend == \E current \in Dids, next_hop \in OptDids : SendRelay(current, next_hop)

SpecSend == InitRelay /\ [][NextSend]_vars

\* -------------------------------------- relay.rs: one call on a wire envelope
\* MessageRelay is Deserialize with public fields: any field values may arrive.
WireDids == 1..NumWireDids
WirePaths == UNION {[1..n -> WireDids] : n \in 1..MaxWirePath}
WireEnvelopes ==
    [method : {SEND, REPORT},
     path : WirePaths,
     path_end_cursor : 0..MaxWirePath,
     next_hop : WireDids \cup {None},
     destination : WireDids]

InitWire ==
    /\ envelope \in WireEnvelopes
    /\ last = NoCall
    /\ calls = 0
    /\ walk = -1
    /\ pure = FALSE
    /\ out = envelope
    /\ InitSwarm

\* envelope.validate()
WireValidate ==
    /\ last' = [op |-> "validate", current |-> None, hop |-> None,
                err |-> validate(envelope)]
    /\ out' = envelope
    /\ UNCHANGED <<envelope, calls, walk, pure>>
    /\ UNCHANGED <<swarmVars, handshakeVars>>

\* envelope.clone().relay(current, next_hop)
WireRelay(current, next_hop) ==
    /\ last' = [op |-> "relay", current |-> current, hop |-> next_hop,
                err |-> relay(envelope, current, next_hop).err]
    /\ out' = relay(envelope, current, next_hop).self
    /\ UNCHANGED <<envelope, calls, walk, pure>>
    /\ UNCHANGED <<swarmVars, handshakeVars>>

\* envelope.report()
WireReport ==
    /\ last' = [op |-> "report", current |-> None, hop |-> None,
                err |-> report(envelope).err]
    /\ out' = report(envelope).self
    /\ UNCHANGED <<envelope, calls, walk, pure>>
    /\ UNCHANGED <<swarmVars, handshakeVars>>

\* envelope.clone().reset_destination(destination)
WireResetDestination(destination) ==
    /\ last' = [op |-> "reset_destination", current |-> destination, hop |-> None,
                err |-> reset_destination(envelope, destination).err]
    /\ out' = reset_destination(envelope, destination).self
    /\ UNCHANGED <<envelope, calls, walk, pure>>
    /\ UNCHANGED <<swarmVars, handshakeVars>>

NextWire ==
    \/ WireValidate
    \/ \E current \in WireDids, next_hop \in WireDids \cup {None} : WireRelay(current, next_hop)
    \/ WireReport
    \/ \E destination \in WireDids : WireResetDestination(destination)

SpecWire == InitWire /\ [][NextWire]_vars

\* ------------------------------------------------ impls.rs: the handshake
\* MessagePayload::verify(): the signature check of the session machinery.
verify(payload) == payload.verified

\* MessagePayload::new_send(body, session_sk, origin, destination)
new_send(data, sdp, from, destination) ==
    [verified |-> TRUE, data |-> data, origin |-> from,
     destination |-> destination, next_hop |-> None, sdp |-> sdp]

\* backend.connection(did)
connection(n, did) == backend[n][did]

\* backend.get_and_check_connection(did): None unless the state is Connected
get_and_check_connection(n, did) ==
    IF backend[n][did] # NoConn /\ hconns[backend[n][did]].state = "Connected"
    THEN backend[n][did]
    ELSE NoConn

\* backend.new_connection(did, callback): the Connection as it is created
new_connection(n, did, local, remote) ==
    [owner |-> n, peer |-> did, state |-> "New", local |-> local, remote |-> remote]

prepare_connection_offer(n, peer) ==
    IF get_and_check_connection(n, peer) # NoConn
    THEN "AlreadyConnected"
    ELSE "Ok"

answer_remote_connection(n, peer, sdp) ==
    IF get_and_check_connection(n, peer) # NoConn
    THEN "AlreadyConnected"
    ELSE IF sdp = NoSdp
    THEN "Deserialize"
    ELSE "Ok"

accept_remote_connection(n, peer, sdp) ==
    IF sdp = NoSdp
    THEN "Deserialize"
    ELSE IF connection(n, peer) = NoConn
    THEN "ConnectionNotFound"
    ELSE "Ok"

\* Mutant of answer_offer: the body is looked at before the signature.
answer_offer_body_first(n, payload) ==
    IF payload.data # "ConnectNodeSend"
    THEN "InvalidMessage"
    ELSE IF ~verify(payload)
    THEN "VerifySignatureFailed"
    ELSE answer_remote_connection(n, payload.origin, payload.sdp)

answer_offer(n, payload) ==
    IF ~verify(payload)
    THEN "VerifySignatureFailed"
    ELSE IF payload.data # "ConnectNodeSend"
    THEN "InvalidMessage"
    ELSE answer_remote_connection(n, payload.origin, payload.sdp)

\* Mutant of accept_answer: the kind of the body is not looked at.
accept_answer_any_body(n, payload) ==
    IF ~verify(payload)
    THEN "VerifySignatureFailed"
    ELSE accept_remote_connection(n, payload.origin, payload.sdp)

accept_answer(n, payload) ==
    IF ~verify(payload)
    THEN "VerifySignatureFailed"
    ELSE IF payload.data # "ConnectNodeReport"
    THEN "InvalidMessage"
    ELSE accept_remote_connection(n, payload.origin, payload.sdp)

\* What a call records: the connection held for the peer before it.
HsCall(op, n, peer, payload, err, conn, result) ==
    [op |-> op, node |-> n, payload |-> payload, err |-> err, conn |-> conn,
     prior |-> backend[n][peer],
     priorConnected |-> get_and_check_connection(n, peer) # NoConn,
     result |-> result, did |-> None]

\* swarm.create_offer(peer) on node n
CreateOffer(n, peer) ==
    LET err == prepare_connection_offer(n, peer)
        conn == Len(hconns) + 1
    IN  /\ IF err = "Ok"
           THEN /\ hconns' = Append(hconns, new_connection(n, peer, "offer", NoSdp))
                /\ backend' = [backend EXCEPT ![n][peer] = conn]
                /\ hlast' = HsCall("create_offer", n, peer, NoPayload, err, conn,
                                   new_send("ConnectNodeSend", conn, n, peer))
           ELSE /\ UNCHANGED <<hconns, backend>>
                /\ hlast' = HsCall("create_offer", n, peer, NoPayload, err, NoConn, NoPayload)
        /\ UNCHANGED <<pending, registry, events>>
        /\ UNCHANGED <<relayVars, swarmVars, measure>>

\* swarm.answer_offer(offer_payload) on node n
AnswerOffer(n, payload) ==
    LET err == answer_offer(n, payload)
        peer == payload.origin
        conn == Len(hconns) + 1
    IN  /\ IF err = "Ok"
           THEN /\ hconns' = Append(hconns, new_connection(n, peer, "answer", payload.sdp))
                /\ backend' = [backend EXCEPT ![n][peer] = conn]
                /\ hlast' = HsCall("answer_offer", n, peer, payload, err, conn,
                                   new_send("ConnectNodeReport", conn, n, n))
           ELSE /\ UNCHANGED <<hconns, backend>>
                /\ hlast' = HsCall("answer_offer", n, peer, payload, err, NoConn, NoPayload)
        /\ UNCHANGED <<pending, registry, events>>
        /\ UNCHANGED <<relayVars, swarmVars, measure>>

\* swarm.accept_answer(answer_payload) on node n
AcceptAnswer(n, payload) ==
    LET err == accept_answer(n, payload)
        peer == payload.origin
        conn == connection(n, peer)
    IN  /\ IF err = "Ok"
           THEN /\ hconns' = [hconns EXCEPT ![conn].remote = payload.sdp]
                /\ hlast' = HsCall("accept_answer", n, peer, payload, err, conn, NoPayload)
           ELSE /\ UNCHANGED hconns
                /\ hlast' = HsCall("accept_answer", n, peer, payload, err, NoConn, NoPayload)
        /\ UNCHANGED <<backend, pending, registry, events>>
        /\ UNCHANGED <<relayVars, swarmVars, measure>>

\* ---------------------------------- rings-core swarm.rs: pending and events
\* find_pending_transport(id)
find_pending_transport(n, id) == \E i \in 1..Len(pending[n]) : pending[n][i] = id

\* pop_pending_transport(id): the list without its first entry of that id
pop_pending_transport(list, id) ==
    LET index == CHOOSE i \in 1..Len(list) :
                     /\ list[i] = id
                     /\ \A j \in 1..(i - 1) : list[j] # id
    IN  [i \in 1..(Len(list) - 1) |-> IF i < index THEN list[i] ELSE list[i + 1]]

Event(type, did, id) == [type |-> type, did |-> did, id |-> id]

\* swarm.push_pending_transport(&transport) on node n
PushPending(n, conn) ==
    /\ conn \in 1..Len(hconns)
    /\ hconns[conn].owner = n
    /\ pending' = [pending EXCEPT ![n] = Append(@, conn)]
    /\ hlast' = [NoHsCall EXCEPT !.op = "push_pending", !.node = n, !.conn = conn]
    /\ UNCHANGED <<backend, hconns, registry, events>>
    /\ UNCHANGED <<relayVars, swarmVars, measure>>

\* load_message on Event::RegisterTransport((did, id))
LoadRegisterTransport(n, did, id) ==
    LET found == find_pending_transport(n, id)
        prev == registry[n][did]
        transports == IF found THEN [registry EXCEPT ![n][did] = id] ELSE registry
    IN  /\ registry' = transports
        /\ pending' = IF found
                      THEN [pending EXCEPT ![n] = pop_pending_transport(@, id)]
                      ELSE pending
        /\ hconns' = IF found /\ prev # NoConn
                     THEN [hconns EXCEPT ![prev].state = "Closed"]
                     ELSE hconns
        /\ hlast' = [NoHsCall EXCEPT
                        !.op = "poll_message", !.node = n, !.conn = id, !.did = did,
                        !.err = IF transports[n][did] # NoConn
                                THEN "JoinDHT"
                                ELSE "SwarmMissTransport"]

\* Mutant of LoadConnectClosed: LeaveDHT is returned whatever the registry holds.
LoadConnectClosedAlways(n, did, uuid) ==
    /\ pending' = IF find_pending_transport(n, uuid)
                  THEN [pending EXCEPT ![n] = pop_pending_transport(@, uuid)]
                  ELSE pending
    /\ registry' = [registry EXCEPT ![n][did] = NoConn]
    /\ hlast' = [NoHsCall EXCEPT
                    !.op = "poll_message", !.node = n, !.conn = uuid, !.did = did,
                    !.err = "LeaveDHT"]
    /\ UNCHANGED hconns

\* load_message on Event::ConnectClosed((did, uuid))
LoadConnectClosed(n, did, uuid) ==
    LET registered_here == registry[n][did] # NoConn /\ registry[n][did] = uuid
    IN  /\ pending' = IF find_pending_transport(n, uuid)
                      THEN [pending EXCEPT ![n] = pop_pending_transport(@, uuid)]
                      ELSE pending
        /\ registry' = IF registered_here
                       THEN [registry EXCEPT ![n][did] = NoConn]
                       ELSE registry
        /\ hlast' = [NoHsCall EXCEPT
                        !.op = "poll_message", !.node = n, !.conn = uuid, !.did = did,
                        !.err = IF registered_here THEN "LeaveDHT" ELSE "None"]
        /\ UNCHANGED hconns

\* load_message on Event::DataChannelMessage(msg): the payload decoded from
\* the bytes; bytes that decode to nothing are from no DID. The event names no
\* connection.
LoadDataChannelMessage(n, did, id) ==
    /\ hlast' = [NoHsCall EXCEPT
                    !.op = "poll_message", !.node = n, !.conn = id, !.did = did,
                    !.err = IF did # None THEN "Payload" ELSE "Decode"]
    /\ UNCHANGED <<pending, registry, hconns>>

\* poll_message: let ev = Channel::recv(receiver).await, once in a call.
\* Mutant: the event is looked at and left in the channel.
recv_none(queue) == [ev |-> Head(queue), rest |-> queue]

recv(queue) == [ev |-> Head(queue), rest |-> Tail(queue)]

\* swarm.poll_message() on node n: one event received and loaded
PollMessage(n) ==
    /\ events[n] # <<>>
    /\ LET ev == recv(events[n]).ev
       IN  CASE ev.type = "DataChannelMessage" ->
                    LoadDataChannelMessage(n, ev.did, ev.id)
             [] ev.type = "RegisterTransport" ->
                    LoadRegisterTransport(n, ev.did, ev.id)
             [] ev.type = "ConnectClosed" ->
                    LoadConnectClosed(n, ev.did, ev.id)
    /\ events' = [events EXCEPT ![n] = recv(@).rest]
    /\ UNCHANGED backend
    /\ UNCHANGED <<relayVars, swarmVars, measure>>

\* The two descriptions of a negotiation have been exchanged and applied.
Negotiated(conn) ==
    LET remote == hconns[conn].remote
    IN  /\ remote \in 1..Len(hconns)
        /\ hconns[remote].remote = conn
        /\ hconns[remote].owner = hconns[conn].peer
        /\ hconns[remote].peer = hconns[conn].owner
        /\ hconns[remote].local # hconns[conn].local

\* The ICE layer connects conn; its callback sends RegisterTransport.
IceConnected(conn) ==
    /\ conn \in 1..Len(hconns)
    /\ hconns[conn].state = "New"
    /\ Negotiated(conn)
    /\ Len(events[hconns[conn].owner]) < ChannelCapacity
    /\ hconns' = [hconns EXCEPT ![conn].state = "Connected"]
    /\ events' = [events EXCEPT ![hconns[conn].owner] =
                      Append(@, Event("RegisterTransport", hconns[conn].peer, conn))]
    /\ hlast' = [NoHsCall EXCEPT !.op = "ice_connected", !.conn = conn]
    /\ UNCHANGED <<backend, pending, registry>>
    /\ UNCHANGED <<relayVars, swarmVars, measure>>

\* The ICE layer closes conn; its callback sends ConnectClosed.
IceClosed(conn) ==
    /\ conn \in 1..Len(hconns)
    /\ hconns[conn].state # "Closed"
    /\ Len(events[hconns[conn].owner]) < ChannelCapacity
    /\ hconns' = [hconns EXCEPT ![conn].state = "Closed"]
    /\ events' = [events EXCEPT ![hconns[conn].owner] =
                      Append(@, Event("ConnectClosed", hconns[conn].peer, conn))]
    /\ hlast' = [NoHsCall EXCEPT !.op = "ice_closed", !.conn = conn]
    /\ UNCHANGED <<backend, pending, registry>>
    /\ UNCHANGED <<relayVars, swarmVars, measure>>

\* The data channel of conn, open once the connection is connected, receives
\* a message of the peer; its callback sends DataChannelMessage.
OnMessage(conn) ==
    /\ conn \in 1..Len(hconns)
    /\ hconns[conn].state = "Connected"
    /\ Len(events[hconns[conn].owner]) < ChannelCapacity
    /\ events' = [events EXCEPT ![hconns[conn].owner] =
                      Append(@, Event("DataChannelMessage", hconns[conn].peer, NoConn))]
    /\ hlast' = [NoHsCall EXCEPT !.op = "on_message", !.conn = conn]
    /\ UNCHANGED <<backend, hconns, pending, registry>>
    /\ UNCHANGED <<relayVars, swarmVars, measure>>

\* Session descriptions the node `from` can put in a payload: one that does
\* not deserialize, or that of one of its connections.
Sdps(from) == {NoSdp} \cup {c \in 1..Len(hconns) : hconns[c].owner = from}

\* Payloads as they may arrive at node n from the other node: signed or not,
\* with a body that is no part of the handshake, or with an offer or an answer.
Payloads(n) ==
    LET Arriving(data, sdps) ==
            [verified : BOOLEAN, data : data, origin : Nodes \ {n},
             destination : {n}, next_hop : {None}, sdp : sdps]
    IN  Arriving({"JoinDHT"}, {NoSdp})
            \cup {p \in Arriving({"ConnectNodeSend", "ConnectNodeReport"},
                                 {NoSdp} \cup DOMAIN hconns) : p.sdp \in Sdps(p.origin)}

\* The connections created so far are fewer than max, or the call creates none.
Room(err, max) == err = "Ok" => Len(hconns) < max

NextHandshake ==
    \/ \E n \in Nodes, peer \in Nodes :
          /\ n # peer
          /\ Room(prepare_connection_offer(n, peer), MaxHsConns)
          /\ CreateOffer(n, peer)
    \/ \E n \in Nodes : \E payload \in Payloads(n) :
          /\ Room(answer_offer(n, payload), MaxHsConns)
          /\ AnswerOffer(n, payload)
    \/ \E n \in Nodes : \E payload \in Payloads(n) : AcceptAnswer(n, payload)
    \/ \E n \in Nodes : PollMessage(n)
    \/ \E conn \in DOMAIN hconns : IceConnected(conn)

SpecHandshake == InitSwarmIdle /\ [][NextHandshake]_vars

\* The payloads honest parties deliver to node n: the offers and the answers
\* the other node's create_offer and answer_offer returned.
HonestPayloads(n) ==
    {new_send("ConnectNodeSend", c, hconns[c].owner, n) :
        c \in {c \in DOMAIN hconns :
                  /\ hconns[c].local = "offer"
                  /\ hconns[c].owner # n
                  /\ hconns[c].peer = n}}
    \cup
    {new_send("ConnectNodeReport", c, hconns[c].owner, hconns[c].owner) :
        c \in {c \in DOMAIN hconns :
                  /\ hconns[c].local = "answer"
                  /\ hconns[c].owner # n
                  /\ hconns[c].peer = n}}

NextHonest ==
    \/ \E n \in Nodes, peer \in Nodes :
          /\ n # peer
          /\ Room(prepare_connection_offer(n, peer), MaxHonestConns)
          /\ CreateOffer(n, peer)
    \/ \E n \in Nodes : \E payload \in HonestPayloads(n) :
          /\ Room(answer_offer(n, payload), MaxHonestConns)
          /\ AnswerOffer(n, payload)
    \/ \E n \in Nodes : \E payload \in HonestPayloads(n) : AcceptAnswer(n, payload)
    \/ \E n \in Nodes, conn \in DOMAIN hconns :
          /\ Len(pending[n]) < MaxPending
          /\ PushPending(n, conn)
    \/ \E n \in Nodes : PollMessage(n)
    \/ \E conn \in DOMAIN hconns : IceConnected(conn)
    \/ \E conn \in DOMAIN hconns : IceClosed(conn)
    \/ \E conn \in DOMAIN hconns : OnMessage(conn)

\* ------------------------------------- rings-core swarm.rs: one Swarm's events
\* What poll_message hands to its caller: a payload, or None.
Returned(err) == err \in {"Payload", "JoinDHT", "LeaveDHT"}

\* swarm.new_transport() on node n: a transport that knows no peer yet.
SwarmNewTransport(n) ==
    /\ hconns' = Append(hconns, new_connection(n, None, "none", NoSdp))
    /\ hlast' = [NoHsCall EXCEPT !.op = "new_transport", !.node = n,
                                 !.conn = Len(hconns) + 1]
    /\ UNCHANGED <<backend, pending, registry, events>>
    /\ UNCHANGED <<relayVars, swarmVars, measure>>

\* swarm.register(did, transport) on node n, called directly.
SwarmRegister(n, did, conn) ==
    LET prev == registry[n][did]
    IN  /\ conn \in DOMAIN hconns
        /\ hconns[conn].owner = n
        /\ registry' = [registry EXCEPT ![n][did] = conn]
        /\ hconns' = IF prev # NoConn
                     THEN [hconns EXCEPT ![prev].state = "Closed"]
                     ELSE hconns
        /\ hlast' = [NoHsCall EXCEPT !.op = "register", !.node = n, !.conn = conn,
                                     !.did = did]
        /\ UNCHANGED <<backend, pending, events>>
        /\ UNCHANGED <<relayVars, swarmVars, measure>>

\* swarm.pop_pending_transport(id) on node n
PopPending(n, id) ==
    /\ pending' = IF find_pending_transport(n, id)
                  THEN [pending EXCEPT ![n] = pop_pending_transport(@, id)]
                  ELSE pending
    /\ hlast' = [NoHsCall EXCEPT
                    !.op = "pop_pending", !.node = n, !.conn = id,
                    !.err = IF find_pending_transport(n, id)
                            THEN "Ok" ELSE "SwarmPendingTransNotFound"]
    /\ UNCHANGED <<backend, hconns, registry, events>>
    /\ UNCHANGED <<relayVars, swarmVars, measure>>

\* Channel::send by a transport callback: the sender waits while there is no room.
Channel_ready(queue) == Len(queue) < ChannelCapacity

Channel_send(n, ev) ==
    /\ Channel_ready(events[n])
    /\ events' = [events EXCEPT ![n] = Append(@, ev)]
    /\ hlast' = [NoHsCall EXCEPT !.op = "send_event", !.node = n, !.conn = ev.id,
                                 !.did = ev.did]
    /\ UNCHANGED <<backend, hconns, pending, registry>>
    /\ UNCHANGED <<relayVars, swarmVars, measure>>

\* The events a transport callback of node n may send.
Events(n) ==
    {Event(type, did, id) :
        type \in {"RegisterTransport", "ConnectClosed"},
        did \in Nodes,
        id \in {c \in DOMAIN hconns : hconns[c].owner = n}}
    \cup
    {Event("DataChannelMessage", did, NoConn) : did \in Nodes \cup {None}}

NextEvents ==
    \/ /\ Len(hconns) < MaxSwarmConns
       /\ SwarmNewTransport(NodeA)
    \/ \E conn \in DOMAIN hconns :
          /\ Len(pending[NodeA]) < MaxQueue
          /\ PushPending(NodeA, conn)
    \/ \E conn \in DOMAIN hconns : PopPending(NodeA, conn)
    \/ \E did \in Nodes, conn \in DOMAIN hconns : SwarmRegister(NodeA, did, conn)
    \/ \E ev \in Events(NodeA) : Channel_send(NodeA, ev)
    \/ PollMessage(NodeA)

SpecEvents == InitSwarmIdle /\ [][NextEvents]_vars

\* The same Swarm with its registry written by the event loop only: nothing
\* calls register directly.
NextLoop ==
    \/ /\ Len(hconns) < MaxSwarmConns
       /\ SwarmNewTransport(NodeA)
    \/ \E conn \in DOMAIN hconns :
          /\ Len(pending[NodeA]) < MaxQueue
          /\ PushPending(NodeA, conn)
    \/ \E conn \in DOMAIN hconns : PopPending(NodeA, conn)
    \/ \E ev \in Events(NodeA) : Channel_send(NodeA, ev)
    \/ PollMessage(NodeA)

SpecLoop == InitSwarmIdle /\ [][NextLoop]_vars

\* The event loop keeps polling and the ICE layer converges.
FairHonest ==
    /\ \A n \in Nodes : WF_vars(PollMessage(n))
    /\ \A conn \in 1..MaxHonestConns : WF_vars(IceConnected(conn))

SpecHonest == InitSwarmIdle /\ [][NextHonest]_vars /\ FairHonest

\* ------------------------------------------- impls.rs: the judgement hook
\* behaviour_good: measure.good(did) if there is a measure, else true.
\* Mutant: every DID is good.
behaviour_good_always(m, did) == TRUE

behaviour_good(m, did) == IF m.on THEN m.good[did] ELSE TRUE

should_connect(m, did) == behaviour_good(m, did)

\* record_connect: measure.incr(did, MeasureCounter::Connect) if there is a measure
record_connect(m, did) ==
    IF m.on THEN [m EXCEPT !.connect[did] = @ + 1] ELSE m

\* record_disconnected: measure.incr(did, MeasureCounter::Disconnected)
record_disconnected(m, did) ==
    IF m.on THEN [m EXCEPT !.disconnected[did] = @ + 1] ELSE m

\* The Swarm is built with a measure or without one.
InitJudge ==
    /\ IdleEnvelope
    /\ table = [d \in Peers |-> NoConn]
    /\ conns = [c \in Conns |-> [state |-> "New", closes |-> 0]]
    /\ swarmLast = NoSwarmCall
    /\ registered = {}
    /\ tasks = [t \in Tasks |-> IdleTask]
    /\ table0 = table
    /\ backend = [n \in Nodes |-> [d \in Nodes |-> NoConn]]
    /\ hconns = <<>>
    /\ pending = [n \in Nodes |-> <<>>]
    /\ registry = [n \in Nodes |-> [d \in Nodes |-> NoConn]]
    /\ events = [n \in Nodes |-> <<>>]
    /\ hlast = NoHsCall
    /\ measure \in {NoMeasure, [NoMeasure EXCEPT !.on = TRUE]}

\* ConnectionManager::connect and connect_via: the connection held if it is
\* connected, else a new one whose offer is sent to did (by next_hop if given).
ManagerConnect(op, n, did, next_hop) ==
    LET held == get_and_check_connection(n, did)
        conn == Len(hconns) + 1
        offer == [new_send("ConnectNodeSend", conn, n, did) EXCEPT !.next_hop = next_hop]
    IN  IF held # NoConn
        THEN /\ hlast' = [HsCall(op, n, did, NoPayload, "Ok", held, NoPayload)
                             EXCEPT !.did = did]
             /\ UNCHANGED <<backend, hconns>>
        ELSE /\ hconns' = Append(hconns, new_connection(n, did, "offer", NoSdp))
             /\ backend' = [backend EXCEPT ![n][did] = conn]
             /\ hlast' = [HsCall(op, n, did, NoPayload, "Ok", conn, offer)
                             EXCEPT !.did = did]

\* JudgeConnection::connect(did) and connect_via(did, next_hop) on node n
JudgeConnect(op, n, did, next_hop) ==
    /\ IF ~should_connect(measure, did)
       THEN /\ hlast' = [HsCall(op, n, did, NoPayload, "NodeBehaviourBad", NoConn,
                                NoPayload) EXCEPT !.did = did]
            /\ UNCHANGED <<backend, hconns, measure>>
       ELSE /\ measure' = record_connect(measure, did)
            /\ ManagerConnect(op, n, did, next_hop)
    /\ UNCHANGED <<pending, registry, events>>
    /\ UNCHANGED <<relayVars, swarmVars>>

\* JudgeConnection::disconnect(did) on node n
JudgeDisconnect(n, did) ==
    /\ measure' = record_disconnected(measure, did)
    /\ backend' = [backend EXCEPT ![n][did] = NoConn]
    /\ hconns' = IF backend[n][did] # NoConn
                 THEN [hconns EXCEPT ![backend[n][did]].state = "Closed"]
                 ELSE hconns
    /\ hlast' = [HsCall("disconnect", n, did, NoPayload, "Ok", backend[n][did],
                        NoPayload) EXCEPT !.did = did]
    /\ UNCHANGED <<pending, registry, events>>
    /\ UNCHANGED <<relayVars, swarmVars>>

\* The measure changes its verdict on a DID.
Judge(did, good) ==
    /\ measure.on
    /\ measure.good[did] # good
    /\ measure' = [measure EXCEPT !.good[did] = good]
    /\ hlast' = [NoHsCall EXCEPT !.op = "judge", !.did = did]
    /\ UNCHANGED <<backend, hconns, pending, registry, events>>
    /\ UNCHANGED <<relayVars, swarmVars>>

\* The connection made for a peer becomes connected.
Established(conn) ==
    /\ hconns[conn].state = "New"
    /\ hconns' = [hconns EXCEPT ![conn].state = "Connected"]
    /\ hlast' = [NoHsCall EXCEPT !.op = "established", !.conn = conn]
    /\ UNCHANGED <<backend, pending, registry, events, measure>>
    /\ UNCHANGED <<relayVars, swarmVars>>

\* The counters are followed up to MaxCount, the connections up to MaxJudgeConns.
NextJudge ==
    \/ \E did \in Nodes :
          /\ Len(hconns) < MaxJudgeConns
          /\ measure.connect[did] < MaxCount
          /\ JudgeConnect("connect", NodeA, did, did)
    \/ \E did \in Nodes, next_hop \in Nodes :
          /\ Len(hconns) < MaxJudgeConns
          /\ measure.connect[did] < MaxCount
          /\ JudgeConnect("connect_via", NodeA, did, next_hop)
    \/ \E did \in Nodes :
          /\ measure.disconnected[did] < MaxCount
          /\ JudgeDisconnect(NodeA, did)
    \/ \E did \in Nodes, good \in BOOLEAN : Judge(did, good)
    \/ \E conn \in DOMAIN hconns : Established(conn)

SpecJudge == InitJudge /\ [][NextJudge]_vars

\* ------------------------------------------------------------ relay claims
NoAdjacentDuplicates(path) ==
    \A i \in 1..Len(path) : \A j \in 1..Len(path) : j = i + 1 => path[i] # path[j]

Distinct(path) ==
    \A i \in 1..Len(path) : \A j \in 1..Len(path) : i # j => path[i] # path[j]

IndexOf(path, d) == CHOOSE i \in 1..Len(path) : path[i] = d

\* C5: after any sequence of relay calls on a SEND envelope that starts with
\* path = [origin], len(path) is the number of calls plus one and path has no
\* two adjacent equal DIDs.
C5_PathMonotonicity ==
    /\ Len(envelope.path) = calls + 1
    /\ NoAdjacentDuplicates(envelope.path)

\* C6: for a valid SEND envelope with len(path) >= 2, report() succeeds, and
\* relay(current, None) on the report with current = path[len-2], ..., path[0]
\* succeeds at every step and ends with next_hop = None and
\* path_end_cursor = len(path) - 1.
C6_ReportReversible ==
    /\ (last.op = "report" /\ last.err # "Ok")
          => (envelope.method = REPORT \/ Len(envelope.path) < 2)
    /\ (last.op = "relay" /\ walk >= 0) => last.err = "Ok"
    /\ walk = 0 => /\ envelope.next_hop = None
                   /\ envelope.path_end_cursor = Len(envelope.path) - 1

\* C7: after any sequence of relay, report and reset_destination calls,
\* successful or failed, 0 <= path_end_cursor <= len(path) - 1.
C7_CursorBound ==
    /\ 0 <= envelope.path_end_cursor
    /\ envelope.path_end_cursor <= Len(envelope.path) - 1

C7_Witness ==
    /\ envelope.method = REPORT
    /\ last.op = "relay"
    /\ last.err = "Ok"
    /\ Len(envelope.path) >= 3
    /\ envelope.path_end_cursor = Len(envelope.path) - 1

\* C8: every REPORT envelope obtained by report(), and every envelope reached
\* from it by relay or reset_destination, has path[0] = destination.
C8_ReportDestination ==
    envelope.method = REPORT => envelope.path[1] = envelope.destination

C8_Witness ==
    /\ envelope.method = REPORT
    /\ last.op = "reset_destination"
    /\ last.current # envelope.destination
    /\ envelope.path_end_cursor >= 1

\* C9: relaying a SEND envelope leaves path_end_cursor at 0 after every hop;
\* on the report of a pairwise distinct path, each relay(current, None) with
\* current = next_hop at an interior hop succeeds, increases path_end_cursor by
\* exactly 1 and sets next_hop to the path element immediately before current.
C9_InteriorHop ==
    /\ envelope.method = REPORT
    /\ pure
    /\ Distinct(envelope.path)
    /\ envelope.next_hop # None
    /\ envelope.next_hop # envelope.path[1]
    /\ last'.op = "relay"
    /\ last'.current = envelope.next_hop
    /\ last'.hop = None

C9_ForwardThenReport ==
    /\ [](envelope.method = SEND => envelope.path_end_cursor = 0)
    /\ [][C9_InteriorHop =>
            /\ last'.err = "Ok"
            /\ envelope'.path_end_cursor = envelope.path_end_cursor + 1
            /\ envelope'.next_hop =
                  envelope.path[IndexOf(envelope.path, envelope.next_hop) - 1]]_vars

C9_Witness ==
    /\ envelope.method = REPORT
    /\ pure
    /\ Distinct(envelope.path)
    /\ Len(envelope.path) = 4
    /\ last.op = "relay"
    /\ last.err = "Ok"
    /\ envelope.path_end_cursor = 2
    /\ envelope.next_hop = envelope.path[1]

\* C10: path_prev() is path[len(path) - 2 - path_end_cursor] when that index
\* is non-negative and None otherwise; None for a one-element path; after a
\* SEND relay it is the element that was last on the path before the relay.
C10_PathPrev ==
    LET index == Len(envelope.path) - 2 - envelope.path_end_cursor
    IN  /\ index >= 0 => path_prev(envelope) = envelope.path[index + 1]
        /\ index < 0 => path_prev(envelope) = None
        /\ Len(envelope.path) = 1 => path_prev(envelope) = None
        /\ (envelope.method = SEND /\ last.op = "relay" /\ last.err = "Ok")
              => path_prev(envelope) = envelope.path[Len(envelope.path) - 1]

C10_Witness ==
    /\ envelope.method = SEND
    /\ last.op = "relay"
    /\ last.err = "Ok"
    /\ Len(envelope.path) >= 3
    /\ path_prev(envelope) = envelope.path[Len(envelope.path) - 1]
    /\ path_prev(envelope) # envelope.path[1]

\* C11: validate() returns InvalidRelayPath when path has two adjacent equal
\* DIDs, InvalidRelayDestination when (the path being free of them) the method
\* is REPORT and path[0] # destination, and succeeds otherwise; relay validates
\* before it makes any change.
C11_Expected ==
    IF ~NoAdjacentDuplicates(envelope.path) THEN "InvalidRelayPath"
    ELSE IF envelope.method = REPORT /\ envelope.path[1] # envelope.destination
    THEN "InvalidRelayDestination"
    ELSE "Ok"

C11_Validate ==
    /\ last.op = "validate" => last.err = C11_Expected
    /\ (last.op = "relay" /\ C11_Expected # "Ok")
          => (last.err = C11_Expected /\ out = envelope)

C11_Witness ==
    /\ last.op = "relay"
    /\ last.err = "InvalidRelayDestination"
    /\ envelope.next_hop = None
    /\ Len(envelope.path) >= 2
    /\ out = envelope

\* C12: report() succeeds only on a SEND envelope with len(path) >= 2
\* (ReportNeedSend for a REPORT envelope, CannotInferNextHop for a shorter
\* path); on success the original is unchanged and the envelope returned has
\* method REPORT, the same path, path_end_cursor 0, next_hop = path_prev() and
\* destination = path[0].
C12_Returned ==
    last.op = "report" =>
        /\ envelope.method = REPORT => last.err = "ReportNeedSend"
        /\ (envelope.method = SEND /\ Len(envelope.path) < 2)
              => last.err = "CannotInferNextHop"
        /\ (envelope.method = SEND /\ Len(envelope.path) >= 2) => last.err = "Ok"
        /\ last.err = "Ok" =>
              /\ out.method = REPORT
              /\ out.path = envelope.path
              /\ out.path_end_cursor = 0
              /\ out.next_hop = path_prev(envelope)
              /\ out.destination = envelope.path[1]

C12_Report ==
    /\ []C12_Returned
    /\ [][last'.op = "report" => envelope' = envelope]_vars

C12_Witness ==
    /\ last.op = "report"
    /\ last.err = "Ok"
    /\ Len(envelope.path) >= 3
    /\ out.next_hop # None
    /\ out.next_hop # envelope.next_hop
    /\ out.destination # envelope.destination
    /\ out.destination # envelope.path[Len(envelope.path)]

\* C13: relay(current, next_hop_opt) on a (valid) envelope whose next_hop is
\* set to a DID other than current fails with InvalidNextHop, SEND or REPORT;
\* with next_hop unset no current is refused by this check.
C13_InvalidNextHop ==
    (last.op = "relay" /\ C11_Expected = "Ok") =>
        /\ (envelope.next_hop # None /\ envelope.next_hop # last.current)
              => (last.err = "InvalidNextHop" /\ out = envelope)
        /\ envelope.next_hop = None => last.err # "InvalidNextHop"

C13_Witness ==
    /\ last.op = "relay"
    /\ envelope.method = REPORT
    /\ envelope.next_hop # None
    /\ envelope.next_hop # last.current
    /\ last.err = "InvalidNextHop"

\* C14: reset_destination(d) sets destination to d on a SEND envelope; on a
\* REPORT envelope it fails with ResetDestinationNeedSend and leaves
\* destination and every other field as they were.
C14_ResetDestination ==
    last.op = "reset_destination" =>
        /\ envelope.method = SEND =>
              /\ last.err = "Ok"
              /\ out.destination = last.current
              /\ out.method = envelope.method
              /\ out.path = envelope.path
              /\ out.path_end_cursor = envelope.path_end_cursor
              /\ out.next_hop = envelope.next_hop
        /\ envelope.method = REPORT =>
              /\ last.err = "ResetDestinationNeedSend"
              /\ out = envelope

C14_Witness ==
    /\ last.op = "reset_destination"
    /\ envelope.method = REPORT
    /\ last.current # envelope.destination
    /\ last.err = "ResetDestinationNeedSend"
    /\ out.destination = envelope.destination

\* ------------------------------------------------------- handshake claims
\* The handshake of a (owned by NodeA, offered to NodeB) and b (NodeB's answer
\* to it) is complete: offer answered, answer accepted, both connections
\* Connected, and their RegisterTransport events received and loaded.
C15_Handshaken(a, b) ==
    /\ hconns[a].owner = NodeA /\ hconns[a].peer = NodeB /\ hconns[a].local = "offer"
    /\ hconns[b].owner = NodeB /\ hconns[b].peer = NodeA /\ hconns[b].local = "answer"
    /\ hconns[b].remote = a
    /\ hconns[a].remote = b
    /\ hconns[a].state = "Connected"
    /\ hconns[b].state = "Connected"
    /\ \A i \in 1..Len(events[NodeA]) : events[NodeA][i].id # a
    /\ \A i \in 1..Len(events[NodeB]) : events[NodeB][i].id # b

C15_Completed == \E a, b \in DOMAIN hconns : C15_Handshaken(a, b)

\* C15: handshake completeness: once A completed prepare_offer(B), B completed
\* answer_offer on A's offer, A completed accept_answer on B's answer, both
\* connections are Connected and their register events have been processed,
\* eventually A's registry contains B and B's registry contains A.
C15_HandshakeCompleteness ==
    C15_Completed ~>
        (registry[NodeA][NodeB] # NoConn /\ registry[NodeB][NodeA] # NoConn)

\* C16: prepare_offer(B) fails with AlreadyConnected whenever an active
\* connection to B exists, and answer_offer for an offer from A fails with
\* AlreadyConnected whenever B already holds a connection to A; no Connection
\* is created and the existing one is untouched.
C16_AlreadyConnected ==
    /\ (hlast.op = "create_offer" /\ hlast.priorConnected) =>
          /\ hlast.err = "AlreadyConnected"
          /\ hlast.conn = NoConn
          /\ backend[hlast.node][hconns[hlast.prior].peer] = hlast.prior
    /\ (/\ hlast.op = "answer_offer"
        /\ verify(hlast.payload)
        /\ hlast.payload.data = "ConnectNodeSend"
        /\ hlast.prior # NoConn
        /\ hconns[hlast.prior].state # "Closed") =>
          /\ hlast.err = "AlreadyConnected"
          /\ hlast.conn = NoConn
          /\ backend[hlast.node][hlast.payload.origin] = hlast.prior

\* C17: after prepare_offer(B) succeeds, the Connection it created is on the
\* pending list and not in the registry (until registered, closed or popped).
C17_OfferIsPending ==
    (hlast.op = "create_offer" /\ hlast.err = "Ok") =>
        /\ find_pending_transport(hlast.node, hlast.conn)
        /\ \A did \in Nodes : registry[hlast.node][did] # hlast.conn

\* C18: a payload whose signature verification fails has no side effects:
\* answer_offer and accept_answer return VerifySignatureFailed whatever the
\* body is, create no Connection, apply no SDP, and leave the backend, the
\* registry, the pending list and the event channel as they were.
C18_Unverified ==
    /\ hlast'.op \in {"answer_offer", "accept_answer"}
    /\ ~verify(hlast'.payload)

C18_NoSideEffects ==
    [][C18_Unverified =>
          /\ hlast'.err = "VerifySignatureFailed"
          /\ hlast'.conn = NoConn
          /\ hlast'.result = NoPayload
          /\ UNCHANGED <<backend, hconns, pending, registry, events>>]_vars

C18_Witness ==
    /\ hlast.op = "accept_answer"
    /\ ~verify(hlast.payload)
    /\ hlast.payload.data = "ConnectNodeReport"
    /\ hlast.payload.sdp # NoSdp
    /\ hlast.prior # NoConn
    /\ hconns[hlast.prior].local = "offer"
    /\ hconns[hlast.prior].remote = NoSdp
    /\ hlast.err = "VerifySignatureFailed"

\* C19: the answer payload returned by B's answer_offer(offer from A) carries
\* A's DID, the origin of the offer payload's envelope, as its destination.
C19_AnswerDestination ==
    (hlast.op = "answer_offer" /\ hlast.err = "Ok") =>
        hlast.result.destination = hlast.payload.origin

\* C21: create_offer(B) on node A returns a signed SEND payload whose body
\* is ConnectNodeSend, whose destination is B and whose next_hop is B.
C21_OfferPayload ==
    (hlast.op = "create_offer" /\ hlast.err = "Ok") =>
        /\ verify(hlast.result)
        /\ hlast.result.data = "ConnectNodeSend"
        /\ hlast.result.origin = hlast.node
        /\ hlast.result.destination = hconns[hlast.conn].peer
        /\ hlast.result.next_hop = hconns[hlast.conn].peer

C1_OverwriteClosesPrior ==
    (/\ swarmLast.op = "register"
     /\ swarmLast.prev # NoConn
     /\ swarmLast.prev # swarmLast.conn
     /\ swarmLast.state # "Closed")
    => /\ conns[swarmLast.prev].state = "Closed"
       /\ conns[swarmLast.conn].state # "Closed"
       /\ get_transport(swarmLast.did) = swarmLast.conn

C1_Witness ==
    /\ swarmLast.op = "register"
    /\ swarmLast.prev # NoConn
    /\ swarmLast.prev # swarmLast.conn
    /\ swarmLast.state = "Connected"
    /\ conns[swarmLast.prev].state = "Closed"
    /\ conns[swarmLast.prev].closes = 1
    /\ get_transport(swarmLast.did) = swarmLast.conn

C3_BothDone ==
    /\ tasks["t1"].pc = "done"
    /\ tasks["t2"].pc = "done"
    /\ tasks["t1"].did = tasks["t2"].did
    /\ tasks["t1"].conn # tasks["t2"].conn
    /\ table0[tasks["t1"].did] \notin {tasks["t1"].conn, tasks["t2"].conn}

C3_SingleSlot ==
    C3_BothDone =>
        LET d == tasks["t1"].did
            c1 == tasks["t1"].conn
            c2 == tasks["t2"].conn
        IN  \/ get_transport(d) = c1 /\ conns[c2].closes = 1
            \/ get_transport(d) = c2 /\ conns[c1].closes = 1

C3_Witness ==
    /\ C3_BothDone
    /\ table0[tasks["t1"].did] # NoConn
    /\ \E t \in Tasks : tasks[t].overlap
    /\ \E t \in Tasks : get_transport(tasks[t].did) = tasks[t].conn
                        /\ conns[tasks[t].conn].closes = 0

\* C4: over any sequence of register calls, close() is invoked on each
\* connection no more than once.
C4_AtMostOnceClose ==
    \A c \in DOMAIN conns : conns[c].closes <= 1

\* C22: new_transport() gives a connection in ICE state New and does not
\* register it: the table, and get_transport of every DID, are the same before
\* and after the call.
C22_NewTransport ==
    [][(swarmLast' # swarmLast /\ swarmLast'.op = "new_transport") =>
          /\ table' = table
          /\ \A d \in Nodes : get_transport(d)' = get_transport(d)
          /\ swarmLast'.err = "Ok" =>
                /\ swarmLast'.conn \notin DOMAIN conns
                /\ conns'[swarmLast'.conn].state = "New"
                /\ \A d \in Nodes : get_transport(d)' # swarmLast'.conn]_vars

C22_Witness ==
    /\ swarmLast.op = "new_transport"
    /\ swarmLast.err = "Ok"
    /\ conns[swarmLast.conn].state = "New"
    /\ \E d \in Nodes : get_transport(d) # NoConn
    /\ \A d \in Nodes : get_transport(d) # swarmLast.conn

IsPending(list, id) == \E i \in DOMAIN list : list[i] = id

\* C23: poll_message on RegisterTransport(did, id): if id is pending, then
\* afterwards the registry maps did to id, id is no longer pending and
\* JoinDHT(did) is returned; if id is not pending and did has no entry, nothing
\* is returned and registry and pending list are as before.
C23_RegisterTransport ==
    [][\A n \in Nodes :
          (/\ Len(events'[n]) < Len(events[n])
           /\ Head(events[n]).type = "RegisterTransport") =>
              LET ev == Head(events[n])
              IN  /\ IsPending(pending[n], ev.id) =>
                        /\ registry'[n][ev.did] = ev.id
                        /\ ~IsPending(pending'[n], ev.id)
                        /\ hlast'.err = "JoinDHT"
                        /\ hlast'.did = ev.did
                  /\ (~IsPending(pending[n], ev.id) /\ registry[n][ev.did] = NoConn) =>
                        /\ ~Returned(hlast'.err)
                        /\ registry' = registry
                        /\ pending' = pending]_vars

\* C24: poll_message on ConnectClosed(did, id): id is not pending afterwards;
\* the entry of did is removed and LeaveDHT(did) returned exactly when the
\* registered connection is id; a connection registered under another id stays
\* and nothing is returned.
C24_ConnectClosed ==
    [][\A n \in Nodes :
          (/\ Len(events'[n]) < Len(events[n])
           /\ Head(events[n]).type = "ConnectClosed") =>
              LET ev == Head(events[n])
              IN  /\ ~IsPending(pending'[n], ev.id)
                  /\ registry[n][ev.did] = ev.id =>
                        /\ registry'[n][ev.did] = NoConn
                        /\ hlast'.err = "LeaveDHT"
                        /\ hlast'.did = ev.did
                  /\ registry[n][ev.did] # ev.id =>
                        /\ registry' = registry
                        /\ ~Returned(hlast'.err)]_vars

\* C25: no connection is at once on the pending list and in the registry.
C25_Disjoint ==
    \A n \in Nodes : \A d \in Nodes :
        registry[n][d] # NoConn => ~IsPending(pending[n], registry[n][d])

\* The event a poll_message call says it has loaded.
Loaded(call, ev) ==
    /\ call.conn = ev.id
    /\ call.did = ev.did
    /\ ev.type = "DataChannelMessage" <=> call.err \in {"Payload", "Decode"}
    /\ ev.type = "RegisterTransport" <=> call.err \in {"JoinDHT", "SwarmMissTransport"}
    /\ ev.type = "ConnectClosed" <=> call.err \in {"LeaveDHT", "None"}

C27_RegisterBeforeReceive ==
    (hlast.op = "poll_message" /\ hlast.err = "Payload") =>
        registry[hlast.node][hlast.did] # NoConn

\* C26: a send toward a DID that has no connected transport in the table fails
\* with MissDidInTable and writes on no data channel; bytes are written only on
\* the transport found for the DID, and only when its data channel is open.
C26_SendPayload ==
    [][(swarmLast' # swarmLast /\ swarmLast'.op = "send_message") =>
          LET did == swarmLast'.did
              live == get_transport(did) # NoConn
                          /\ is_connected(conns, get_transport(did))
          IN  /\ ~live => (swarmLast'.err = "MissDidInTable" /\ swarmLast'.ret = NoConn)
              /\ swarmLast'.ret # NoConn =>
                    /\ swarmLast'.ret = get_transport(did)
                    /\ is_connected(conns, swarmLast'.ret)]_vars

\* C30: connect and connect_via go on to ConnectionManager only when the DID is
\* judged good; when it is not they return NodeBehaviourBad and the Connect
\* count, the connections and the backend are as before and no offer is sent;
\* without a measure every DID is judged good.
C30_JudgedConnect ==
    [][(/\ hlast'.op \in {"connect", "connect_via"}
        /\ (hlast' # hlast \/ measure' # measure)) =>
          LET did == hlast'.did
              bad == measure.on /\ ~measure.good[did]
          IN  /\ should_connect(measure, did) <=> ~bad
              /\ bad => /\ hlast'.err = "NodeBehaviourBad"
                        /\ measure' = measure
                        /\ hconns' = hconns
                        /\ backend' = backend
                        /\ hlast'.result = NoPayload
              /\ ~bad => /\ hlast'.err = "Ok"
                         /\ measure.on => measure'.connect[did] = measure.connect[did] + 1
                         /\ backend'[hlast'.node][did] = hlast'.conn]_vars

C30_Witness ==
    /\ hlast.op = "connect_via"
    /\ hlast.err = "NodeBehaviourBad"
    /\ measure.on
    /\ ~measure.good[hlast.did]
    /\ measure.connect[hlast.did] = 1
    /\ get_and_check_connection(hlast.node, hlast.did) # NoConn

\* ------------------------------------------------ relay claims, continued
\* C31: relay(current, any next_hop_opt) on a valid REPORT envelope whose
\* next_hop is its destination, and is current, succeeds, sets path_end_cursor
\* to len(path) - 1 and next_hop to None whatever next_hop_opt is, and leaves
\* path, method and destination as they were.
C31_FinalHop ==
    (/\ last.op = "relay"
     /\ envelope.method = REPORT
     /\ C11_Expected = "Ok"
     /\ envelope.next_hop = envelope.destination
     /\ last.current = envelope.next_hop) =>
        /\ last.err = "Ok"
        /\ out.path_end_cursor = Len(envelope.path) - 1
        /\ out.next_hop = None
        /\ out.path = envelope.path
        /\ out.method = envelope.method
        /\ out.destination = envelope.destination

C31_Witness ==
    /\ last.op = "relay"
    /\ envelope.method = REPORT
    /\ C11_Expected = "Ok"
    /\ envelope.next_hop = envelope.destination
    /\ last.current = envelope.next_hop
    /\ last.hop # None
    /\ last.hop # envelope.destination
    /\ Len(envelope.path) = 3
    /\ envelope.path_end_cursor = 0
    /\ out.path_end_cursor = 2
    /\ out.next_hop = None

\* current is none of the path elements left after the path_end_cursor last
\* ones are skipped.
C32_NotFound ==
    \A i \in 1..(Len(envelope.path) - envelope.path_end_cursor) :
        envelope.path[i] # last.current

\* C32: a REPORT relay that passes the checks and is not the final hop, with
\* current not found in the path at or before the cursor: it fails with
\* CannotInferNextHop if next_hop_opt is None; if next_hop_opt is given it
\* succeeds, the cursor stays and next_hop is next_hop_opt.
C32_CannotInferNextHop ==
    (/\ last.op = "relay"
     /\ envelope.method = REPORT
     /\ C11_Expected = "Ok"
     /\ envelope.next_hop \in {None, last.current}
     /\ envelope.next_hop # envelope.destination
     /\ C32_NotFound) =>
        /\ last.hop = None => last.err = "CannotInferNextHop"
        /\ last.hop # None =>
              /\ last.err = "Ok"
              /\ out.path_end_cursor = envelope.path_end_cursor
              /\ out.next_hop = last.hop
              /\ out.path = envelope.path

C32_Witness ==
    /\ last.op = "relay"
    /\ envelope.method = REPORT
    /\ C11_Expected = "Ok"
    /\ envelope.next_hop = last.current
    /\ envelope.next_hop # envelope.destination
    /\ envelope.path_end_cursor = 1
    /\ Len(envelope.path) = 2
    /\ envelope.path[2] = last.current
    /\ C32_NotFound
    /\ last.hop = None
    /\ last.err = "CannotInferNextHop"

\* C37: a relay call that fails, with a validate error, InvalidNextHop or
\* CannotInferNextHop, leaves every field of the envelope as it was.
C37_FailedRelayUnchanged ==
    (last.op = "relay" /\ last.err # "Ok") => out = envelope

C37_Witness ==
    /\ last.op = "relay"
    /\ last.err = "InvalidNextHop"
    /\ envelope.method = SEND
    /\ Len(envelope.path) = 2
    /\ last.hop # None
    /\ last.hop # envelope.next_hop
    /\ out = envelope

\* C33: a successful relay(current, None) on a valid REPORT envelope that is
\* not at the final hop (its next_hop is not its destination) leaves next_hop
\* set to some DID: path_prev() does not return None in that branch.
C33_PathPrevNeverNone ==
    [][(/\ last'.op = "relay"
        /\ last'.err = "Ok"
        /\ last'.hop = None
        /\ envelope.method = REPORT
        /\ envelope.next_hop # envelope.destination) =>
            envelope'.next_hop # None]_vars

PathPrefix(p, q) == Len(p) <= Len(q) /\ SubSeq(q, 1, Len(p)) = p

\* C34: the path only grows at its end: a successful SEND relay appends
\* current and changes nothing but path and next_hop; a failed relay, a REPORT
\* relay, report() and reset_destination leave the path as it was; so the path
\* before any call is a prefix of the path after it.
C34_PathPushOnly ==
    [][/\ PathPrefix(envelope.path, envelope'.path)
       /\ (last'.op = "relay" /\ envelope.method = SEND /\ last'.err = "Ok") =>
             /\ envelope'.path = Append(envelope.path, last'.current)
             /\ envelope'.path_end_cursor = envelope.path_end_cursor
             /\ envelope'.method = envelope.method
             /\ envelope'.destination = envelope.destination
       /\ (last'.op # "relay" \/ envelope.method = REPORT \/ last'.err # "Ok") =>
             envelope'.path = envelope.path]_vars

C34_Witness ==
    /\ last.op = "relay"
    /\ last.err = "Ok"
    /\ envelope.method = SEND
    /\ Len(envelope.path) = 3
    /\ envelope.path[3] = last.current
    /\ envelope.path[1] = origin_sender
    /\ envelope.next_hop = last.hop

\* C35: on a REPORT envelope made by report(), no relay call lowers
\* path_end_cursor: a successful call leaves it equal or larger, a failed call
\* leaves it equal.
C35_CursorMonotonic ==
    [][(last'.op = "relay" /\ envelope.method = REPORT) =>
          /\ envelope'.path_end_cursor >= envelope.path_end_cursor
          /\ last'.err # "Ok" =>
                envelope'.path_end_cursor = envelope.path_end_cursor]_vars

C35_Witness ==
    /\ last.op = "relay"
    /\ last.err = "Ok"
    /\ envelope.method = REPORT
    /\ Len(envelope.path) = 4
    /\ envelope.path_end_cursor = 2
    /\ envelope.next_hop # None

\* ------------------------------------------------ swarm claims, continued
\* C38: register(d, c) does not close c, the connection it registers, also
\* when c is already the connection registered for d.
C38_RegisteredNotClosed ==
    [][swarmLast'.op = "register" =>
          conns'[swarmLast'.conn].closes = conns[swarmLast'.conn].closes]_vars

\* C40: get_or_register(d, c) with c Connected: if d has an entry e, the call
\* returns e, leaves d bound to e and closes neither e nor c; if d has no
\* entry, c is inserted for d and returned.
C40_GetOrRegister ==
    [][(/\ swarmLast' # swarmLast
        /\ swarmLast'.op = "get_or_register"
        /\ is_connected(conns, swarmLast'.conn)) =>
          LET d == swarmLast'.did
              c == swarmLast'.conn
              e == MemStorage_get(table, d)
          IN  /\ swarmLast'.err = "Ok"
              /\ conns' = conns
              /\ e # NoConn => (swarmLast'.ret = e /\ table' = table)
              /\ e = NoConn => /\ swarmLast'.ret = c
                               /\ table' = [table EXCEPT ![d] = c]]_vars

C40_Witness ==
    /\ swarmLast.op = "get_or_register"
    /\ swarmLast.err = "Ok"
    /\ is_connected(conns, swarmLast.conn)
    /\ swarmLast.ret # swarmLast.conn
    /\ get_transport(swarmLast.did) = swarmLast.ret
    /\ conns[swarmLast.ret].closes = 0
    /\ conns[swarmLast.conn].closes = 0

C36_RegisterCompletes ==
    \A t \in Tasks : (tasks[t].pc = "closing") ~> (tasks[t].pc = "done")

====
